---- MODULE Spec2Model ----
(***************************************************************************)
(* Model of the Reflex research agent: the /answer handler (main.py), the  *)
(* LangGraph agent loop and its per-thread checkpoints (agent.py) and the  *)
(* two tools (tools.py).                                                   *)
(*                                                                         *)
(* The graph compiled in create_agent runs in supersteps: the "agent" node *)
(* (one call of the model), then, when the reply carries tool calls, the   *)
(* "tools" node, then "agent" again.  The MemorySaver checkpointer keeps,  *)
(* per thread_id, the channel values written so far: the input of invoke   *)
(* is written to the checkpoint before the first node runs, and the writes *)
(* of a node are written when its superstep ends.                          *)
(***************************************************************************)
EXTENDS Integers, Sequences, FiniteSets, TLC

\* ------------------------------------------------------------------ bounds
\* Number of /answer requests the clients send.
MaxRequests == 2
\* agent.invoke runs with langgraph's default recursion_limit, 25 supersteps:
\* 12 rounds of (agent, tools) and a last agent step.  The model keeps the
\* shape 2n+1 and scales the 12 rounds down to MaxToolRounds.
MaxToolRounds == 1
\* Replies the model provider gives in a run; once they are used up every call
\* of the model raises (quota exhausted), which is one of the DecisionErrors.
MaxReplies == 2
RecursionLimit == 2 * MaxToolRounds + 1

Requests == 1..MaxRequests

\* ------------------------------------------------------------------ inputs
NoThread == "None"
ThreadInputs == {NoThread, "t1"}
Threads == {"default", "t1"}
Questions == {"", "q1"}

NoAnswer == "<none>"
NoFinal == "<None>"
END == "__end__"

system_prompt == "You are a helpful research assistant."
fallback_notice == "I apologize, but I couldn't generate a complete response."

\* ---------------------------------------------------------------- messages
SystemMessage(c) ==
  [type |-> "system", content |-> c, tool_calls |-> <<>>, tool_call_id |-> 0]
HumanMessage(c) ==
  [type |-> "human", content |-> c, tool_calls |-> <<>>, tool_call_id |-> 0]
AIMessage(c, calls) ==
  [type |-> "ai", content |-> c, tool_calls |-> calls, tool_call_id |-> 0]
ToolMessage(c, id) ==
  [type |-> "tool", content |-> c, tool_calls |-> <<>>, tool_call_id |-> id]

\* a channel without a reducer: the write replaces the value
OverwriteMessages(old, new) == new
\* operator.add on the messages channel of AgentState
AddMessages(old, new) == old \o new

\* ------------------------------------------------------------------- tools
ToolNames == {"search_serper", "scrape_web_page"}
ToolOutcomes == {"ok", "fail"}

\* a tool without its except clauses: the failure leaves the tool
RaisingToolRun(name, outcome) ==
  IF outcome = "ok" THEN [raised |-> FALSE, tool |-> name, error |-> FALSE]
  ELSE [raised |-> TRUE, tool |-> name, error |-> TRUE]
\* What a tool returns to the tools node: a result, never an exception.
\* search_serper: results, or {"query", "error", "organic_results": []};
\* scrape_web_page: status "success", or {"url", "error", "status": "error"}.
ToolRun(name, outcome) ==
  IF outcome = "ok" THEN [raised |-> FALSE, tool |-> name, error |-> FALSE]
  ELSE [raised |-> FALSE, tool |-> name, error |-> TRUE]

\* ---------------------------------------------------------- decision step
\* What llm_with_tools.invoke can do: a reply (content, names of the tools
\* it calls), or an exception.
DecisionOutcomes ==
  { [kind |-> "reply", content |-> "a1", calls |-> <<>>],
    [kind |-> "reply", content |-> "",   calls |-> <<>>],
    [kind |-> "reply", content |-> "t1", calls |-> <<"scrape_web_page">>],
    [kind |-> "reply", content |-> "",   calls |-> <<"search_serper", "scrape_web_page">>],
    [kind |-> "error", content |-> "",   calls |-> <<>>] }

\* The tool calls of a reply get ids unique in the transcript.
ToolCalls(names, base) ==
  [i \in 1..Len(names) |-> [name |-> names[i], id |-> base + i]]

HasToolCalls(m) == Len(m.tool_calls) > 0

\* a graph without its conditional edge to the tools node
AlwaysEnd(messages) == END
\* should_continue: "tools" when the last message carries tool calls
should_continue(messages) ==
  IF HasToolCalls(messages[Len(messages)]) THEN "tools" ELSE END

\* ------------------------------------------------------- answer extraction
IsAI(m) == m.type = "ai"

\* first loop of run_agent: reversed(all_messages), the first AIMessage
\* without tool calls and with content; NoFinal when the loop ends unbroken
RECURSIVE ScanFinal(_, _)
ScanFinal(ms, i) ==
  IF i = 0 THEN NoFinal
  ELSE IF IsAI(ms[i]) /\ ~HasToolCalls(ms[i]) /\ ms[i].content # ""
       THEN ms[i].content
       ELSE ScanFinal(ms, i - 1)

\* second loop: reversed(all_messages), the first AIMessage with content
RECURSIVE ScanAnyContent(_, _)
ScanAnyContent(ms, i) ==
  IF i = 0 THEN NoFinal
  ELSE IF IsAI(ms[i]) /\ ms[i].content # ""
       THEN ms[i].content
       ELSE ScanAnyContent(ms, i - 1)

\* run_agent without its second loop
ExtractFinalOnly(ms) ==
  LET first == ScanFinal(ms, Len(ms))
  IN IF first = NoFinal THEN fallback_notice ELSE first

\* final_message of run_agent
ExtractAnswer(ms) ==
  LET first == ScanFinal(ms, Len(ms))
      second == IF first = NoFinal THEN ScanAnyContent(ms, Len(ms)) ELSE first
  IN IF second = NoFinal THEN fallback_notice ELSE second

\* ------------------------------------------------------- history filtering
HistoryEntry(role, m) == [role |-> role, content |-> m.content, timestamp |-> "None"]

\* a filter that takes the first message for the system message instead of
\* testing the type of each message
DropFirst(ms) ==
  IF ms = <<>> THEN <<>>
  ELSE LET keep == SelectSeq(Tail(ms), LAMBDA m :
                     \/ m.type = "human"
                     \/ m.type = "ai" /\ m.content # "" /\ ~HasToolCalls(m))
       IN [i \in 1..Len(keep) |->
            HistoryEntry(IF keep[i].type = "human" THEN "user" ELSE "assistant", keep[i])]
\* the loop over all_messages in run_agent and over messages in
\* get_chat_history (the two loops are the same text)
RECURSIVE FormatHistory(_)
FormatHistory(ms) ==
  IF ms = <<>> THEN <<>>
  ELSE LET m == Head(ms)
           rest == FormatHistory(Tail(ms))
       IN IF m.type = "system" THEN rest
          ELSE IF m.type = "human" THEN <<HistoryEntry("user", m)>> \o rest
          ELSE IF m.type = "ai"
               THEN IF m.content # "" /\ ~HasToolCalls(m)
                    THEN <<HistoryEntry("assistant", m)>> \o rest
                    ELSE rest
          ELSE rest

\* ------------------------------------------------------------------ priming
\* messages_to_add without the state check
AlwaysPrime(has_existing_state, question) ==
  <<SystemMessage(system_prompt), HumanMessage(question)>>
\* messages_to_add of run_agent
MessagesToAdd(has_existing_state, question) ==
  IF has_existing_state
  THEN <<HumanMessage(question)>>
  ELSE <<SystemMessage(system_prompt), HumanMessage(question)>>

\* ---------------------------------------------------------------- responses
\* AnswerResponse of get_answer
AnswerResponse(answer, chat_history) ==
  [status |-> 200, answer |-> answer, chat_history |-> chat_history]
\* an except clause that answers from the transcript instead of raising
SwallowedError(ms) ==
  [status |-> 200, answer |-> ExtractAnswer(ms), chat_history |-> FormatHistory(ms)]
\* run_agent logs and re-raises; get_answer turns the exception into a 500
ErrorResponse(ms) ==
  [status |-> 500, answer |-> NoAnswer, chat_history |-> <<>>]
\* QuestionRequest: question has min_length 1; the handler is not entered
ValidationResponse == [status |-> 422, answer |-> NoAnswer, chat_history |-> <<>>]
\* ChatHistoryResponse of get_chat_history_endpoint
ChatHistoryResponse(thread_id, messages) ==
  [status |-> 200, thread_id |-> thread_id, messages |-> messages,
   total_messages |-> Len(messages)]
NoResponse == [status |-> 0, answer |-> NoAnswer, chat_history |-> <<>>]

\* -------------------------------------------------------------------- state
VARIABLES
  agent_instance,  \* _agent_instance: 0 for None, else the number of the graph built
  memory,          \* MemorySaver: thread_id -> messages of the latest checkpoint
  pc,              \* where each request is
  req,             \* the QuestionRequest of each request
  msgs,            \* the messages channel of the request's invoke
  steps,           \* supersteps the request's invoke has run
  response,        \* what the request's client got
  priorLen,        \* len(existing_messages) read by run_agent
  added,           \* messages_to_add of run_agent
  err,             \* what made the request fail
  replies,         \* replies the model provider has given so far
  stored           \* len of the thread's checkpointed messages when the response was sent

vars == <<agent_instance, memory, pc, req, msgs, steps, response, priorLen, added, err, replies, stored>>

\* positions of a request between the start of its handler and its response
Active == {"agent", "tools"}
Terminated == {"done", "failed"}

NoRequest == [thread_id |-> NoThread, question |-> ""]
\* a GET /chat-history/{thread_id} carries no question
NoQuestion == "GET"

Init ==
  /\ agent_instance = 0
  /\ memory = [t \in Threads |-> <<>>]
  /\ pc = [r \in Requests |-> "new"]
  /\ req = [r \in Requests |-> NoRequest]
  /\ msgs = [r \in Requests |-> <<>>]
  /\ steps = [r \in Requests |-> 0]
  /\ response = [r \in Requests |-> NoResponse]
  /\ priorLen = [r \in Requests |-> 0]
  /\ added = [r \in Requests |-> <<>>]
  /\ err = [r \in Requests |-> "none"]
  /\ replies = 0
  /\ stored = [r \in Requests |-> 0]

\* a create_agent without its check of the global: every call builds a graph
AlwaysCreate(inst) == inst + 1
\* create_agent: the global instance when there is one, else a new graph
\* compiled on a new MemorySaver; the value is the instance returned
create_agent(inst) == IF inst # 0 THEN inst ELSE inst + 1
\* the store the returned instance works on: the one there is, or the empty
\* store of a graph just built
StoreOf(inst) == IF inst = agent_instance THEN memory ELSE [t \in Threads |-> <<>>]

\* a handler that ignores the thread_id of the request
AlwaysDefault(r) == "default"
\* thread_id = request.thread_id or "default"
ThreadOf(r) == IF req[r].thread_id = NoThread THEN "default" ELSE req[r].thread_id

\* handlers run on a thread pool: a handler starts whenever its request is in
AnyTime(r) == TRUE
\* get_answer is an async def that calls the blocking run_agent without an
\* await: the event loop runs one handler from its first line to its
\* response before it starts another.
EventLoopFree(r) == \A o \in Requests \ {r} : pc[o] \notin Active

\* a QuestionRequest whose question field has no min_length
ArriveUnvalidated(r) ==
  /\ pc[r] = "new"
  /\ \A o \in Requests : o < r => pc[o] # "new"
  /\ \E t \in ThreadInputs, q \in Questions :
       req' = [req EXCEPT ![r] = [thread_id |-> t, question |-> q]]
  /\ pc' = [pc EXCEPT ![r] = "pending"]
  /\ UNCHANGED <<agent_instance, memory, msgs, steps, response, priorLen, added,
                 err, replies, stored>>
\* A client sends request r (requests are numbered in the order they are sent).
\* Validation of QuestionRequest rejects an empty question with a 422.
Arrive(r) ==
  /\ pc[r] = "new"
  /\ \A o \in Requests : o < r => pc[o] # "new"
  /\ \E t \in ThreadInputs, q \in Questions :
       /\ req' = [req EXCEPT ![r] = [thread_id |-> t, question |-> q]]
       /\ IF q = ""
          THEN /\ pc' = [pc EXCEPT ![r] = "rejected"]
               /\ response' = [response EXCEPT ![r] = ValidationResponse]
          ELSE /\ pc' = [pc EXCEPT ![r] = "pending"]
               /\ UNCHANGED response
  /\ UNCHANGED <<agent_instance, memory, msgs, steps, priorLen, added, err, replies, stored>>

\* get_answer enters run_agent: create_agent, the state check, messages_to_add,
\* and the start of agent.invoke, which loads the thread's checkpoint, adds
\* the input to the messages channel and saves the input checkpoint.
Start(r) ==
  /\ pc[r] = "pending"
  /\ EventLoopFree(r)
  /\ LET agent == create_agent(agent_instance)
         store == StoreOf(agent)
         t == ThreadOf(r)
         existing_messages == store[t]
         has_existing_state == Len(existing_messages) > 0
         messages_to_add == MessagesToAdd(has_existing_state, req[r].question)
         channel == AddMessages(store[t], messages_to_add)
     IN /\ agent_instance' = agent
        /\ priorLen' = [priorLen EXCEPT ![r] = Len(existing_messages)]
        /\ added' = [added EXCEPT ![r] = messages_to_add]
        /\ msgs' = [msgs EXCEPT ![r] = channel]
        /\ memory' = [store EXCEPT ![t] = channel]
        /\ steps' = [steps EXCEPT ![r] = 0]
        /\ pc' = [pc EXCEPT ![r] = "agent"]
  /\ UNCHANGED <<req, response, err, replies, stored>>

\* GET /chat-history/{thread_id} as request r; the path parameter is a thread
\* id, there is nothing to validate.  get_chat_history_endpoint has no await:
\* once the event loop takes the request the handler runs from its first line
\* to its response in one piece: get_chat_history calls create_agent, reads
\* the thread's state and filters it.
Fetch(r) ==
  /\ pc[r] = "new"
  /\ \A o \in Requests : o < r => pc[o] # "new"
  /\ EventLoopFree(r)
  /\ \E thread_id \in Threads :
       LET agent == create_agent(agent_instance)
           messages == StoreOf(agent)[thread_id]
           conversation_history == FormatHistory(messages)
       IN /\ req' = [req EXCEPT ![r] = [thread_id |-> thread_id, question |-> NoQuestion]]
          /\ response' = [response EXCEPT ![r] =
                ChatHistoryResponse(thread_id, conversation_history)]
          /\ stored' = [stored EXCEPT ![r] = Len(messages)]
          /\ agent_instance' = agent
          /\ memory' = StoreOf(agent)
  /\ pc' = [pc EXCEPT ![r] = "fetched"]
  /\ UNCHANGED <<msgs, steps, priorLen, added, err, replies>>

\* an invoke without a recursion limit
NeverOutOfSteps(n) == FALSE
\* invoke stops with GraphRecursionError when the supersteps run reach the
\* recursion limit and the graph still has a node to run
OutOfSteps(n) == n >= RecursionLimit

\* The request fails: the exception leaves invoke, run_agent re-raises it and
\* get_answer answers 500.
Fail(r, why, checkpointed) ==
  /\ pc' = [pc EXCEPT ![r] = "failed"]
  /\ err' = [err EXCEPT ![r] = why]
  /\ response' = [response EXCEPT ![r] = ErrorResponse(msgs[r])]
  /\ stored' = [stored EXCEPT ![r] = Len(checkpointed)]

\* The agent node: one call of the model on the messages channel.  A reply is
\* added to the channel and checkpointed; should_continue then routes to the
\* tools node or to END, where invoke returns and run_agent builds the answer.
AgentNode(r) ==
  /\ pc[r] = "agent"
  /\ \E out \in {o \in DecisionOutcomes : replies < MaxReplies \/ o.kind = "error"} :
       IF out.kind = "error"
       THEN /\ Fail(r, "decision", memory[ThreadOf(r)])
            /\ UNCHANGED <<memory, msgs, steps, replies>>
       ELSE LET reply == AIMessage(out.content, ToolCalls(out.calls, Len(msgs[r])))
                channel == AddMessages(msgs[r], <<reply>>)
                n == steps[r] + 1
            IN /\ msgs' = [msgs EXCEPT ![r] = channel]
               /\ replies' = replies + 1
               /\ memory' = [memory EXCEPT ![ThreadOf(r)] = channel]
               /\ steps' = [steps EXCEPT ![r] = n]
               /\ IF should_continue(channel) = "tools"
                  THEN IF OutOfSteps(n)
                       THEN Fail(r, "recursion", channel)
                       ELSE /\ pc' = [pc EXCEPT ![r] = "tools"]
                            /\ UNCHANGED <<response, err, stored>>
                  ELSE /\ pc' = [pc EXCEPT ![r] = "done"]
                       /\ response' = [response EXCEPT ![r] =
                            AnswerResponse(ExtractAnswer(channel), FormatHistory(channel))]
                       /\ stored' = [stored EXCEPT ![r] = Len(channel)]
                       /\ UNCHANGED err
  /\ UNCHANGED <<agent_instance, req, priorLen, added>>

\* The tools node: every tool call of the last message is run, in order, and
\* one ToolMessage per call is added to the channel and checkpointed; the edge
\* tools -> agent then routes back to the agent node.  The calls of one step
\* meet the same network: they all succeed or all fail.
ToolsNode(r) ==
  /\ pc[r] = "tools"
  /\ LET calls == msgs[r][Len(msgs[r])].tool_calls
     IN \E outcome \in ToolOutcomes :
          LET results == [i \in 1..Len(calls) |-> ToolRun(calls[i].name, outcome)]
              tool_messages == [i \in 1..Len(calls) |->
                 ToolMessage([tool |-> results[i].tool, error |-> results[i].error],
                             calls[i].id)]
              channel == AddMessages(msgs[r], tool_messages)
              n == steps[r] + 1
          IN IF \E i \in 1..Len(calls) : results[i].raised
             THEN /\ Fail(r, "tool", memory[ThreadOf(r)])
                  /\ UNCHANGED <<memory, msgs, steps>>
             ELSE /\ msgs' = [msgs EXCEPT ![r] = channel]
                  /\ memory' = [memory EXCEPT ![ThreadOf(r)] = channel]
                  /\ steps' = [steps EXCEPT ![r] = n]
                  /\ IF OutOfSteps(n)
                     THEN Fail(r, "recursion", channel)
                     ELSE /\ pc' = [pc EXCEPT ![r] = "agent"]
                          /\ UNCHANGED <<response, err, stored>>
  /\ UNCHANGED <<agent_instance, req, priorLen, added, replies>>

Next ==
  \E r \in Requests :
    \/ Arrive(r)
    \/ Start(r)
    \/ Fetch(r)
    \/ AgentNode(r)
    \/ ToolsNode(r)

Spec == Init /\ [][Next]_vars

\* The blocking calls of a handler return or raise (the model client and the
\* tools' httpx clients have timeouts), and the event loop starts a waiting
\* handler once it is free.
FairSpec ==
  /\ Spec
  /\ \A r \in Requests :
       /\ WF_vars(Start(r))
       /\ WF_vars(AgentNode(r))
       /\ WF_vars(ToolsNode(r))

\* ------------------------------------------------------------ store faults
\* run_agent when agent.get_state raises (store unavailable or corrupt): the
\* except clause sets has_existing_state to False, so [system, user] is built
\* whatever the thread holds.  The invoke that follows either meets the same
\* fault and raises, or finds the store working again and adds the messages
\* to the thread's transcript.  priorLen records where the turn begins.
StartFault(r) ==
  /\ pc[r] = "pending"
  /\ EventLoopFree(r)
  /\ LET agent == create_agent(agent_instance)
         store == StoreOf(agent)
         t == ThreadOf(r)
         messages_to_add == MessagesToAdd(FALSE, req[r].question)
         channel == AddMessages(store[t], messages_to_add)
     IN /\ agent_instance' = agent
        /\ priorLen' = [priorLen EXCEPT ![r] = Len(store[t])]
        /\ added' = [added EXCEPT ![r] = messages_to_add]
        /\ steps' = [steps EXCEPT ![r] = 0]
        /\ \E recovered \in BOOLEAN :
             IF recovered
             THEN /\ msgs' = [msgs EXCEPT ![r] = channel]
                  /\ memory' = [store EXCEPT ![t] = channel]
                  /\ pc' = [pc EXCEPT ![r] = "agent"]
                  /\ err' = [err EXCEPT ![r] = "state"]
                  /\ UNCHANGED <<response, stored>>
             ELSE /\ msgs' = [msgs EXCEPT ![r] = store[t]]
                  /\ Fail(r, "state", store[t])
                  /\ memory' = store
  /\ UNCHANGED <<req, replies>>

\* get_chat_history when agent.get_state raises: the except clause returns [],
\* which the endpoint answers as an empty history
FetchFault(r) ==
  /\ pc[r] = "new"
  /\ \A o \in Requests : o < r => pc[o] # "new"
  /\ EventLoopFree(r)
  /\ \E thread_id \in Threads :
       LET agent == create_agent(agent_instance)
       IN /\ req' = [req EXCEPT ![r] = [thread_id |-> thread_id, question |-> NoQuestion]]
          /\ response' = [response EXCEPT ![r] = ChatHistoryResponse(thread_id, <<>>)]
          /\ stored' = [stored EXCEPT ![r] = Len(StoreOf(agent)[thread_id])]
          /\ agent_instance' = agent
          /\ memory' = StoreOf(agent)
  /\ err' = [err EXCEPT ![r] = "state"]
  /\ pc' = [pc EXCEPT ![r] = "fetched"]
  /\ UNCHANGED <<msgs, steps, priorLen, added, replies>>

FaultNext ==
  \/ Next
  \/ \E r \in Requests :
       \/ StartFault(r)
       \/ FetchFault(r)

\* the program with a transcript store whose reads can fail
FaultSpec == Init /\ [][FaultNext]_vars
\* ================================================================== claims
Started(r) == pc[r] \in Active \cup Terminated
IsPrefix(a, b) == Len(a) <= Len(b) /\ SubSeq(b, 1, Len(a)) = a
Max(S) == CHOOSE x \in S : \A y \in S : y <= x
\* what request r's invoke has put after the transcript it found
Turn(r) == SubSeq(msgs[r], priorLen[r] + 1, Len(msgs[r]))

C2_AppendOnly ==
  [][\A t \in Threads : IsPrefix(memory[t], memory'[t])]_vars

C2_Witness ==
  \E r, o \in Requests :
    /\ r # o /\ ThreadOf(r) = ThreadOf(o)
    /\ pc[r] = "done" /\ pc[o] = "done"
    /\ priorLen[r] = 0
    /\ priorLen[o] = Len(msgs[r])
    /\ memory[ThreadOf(o)] = msgs[r] \o Turn(o)

\* C3: two requests of one thread are never both between their state check
\* and their response: the second waits as pending until the first has
\* terminated, and while a request is in its turn the stored transcript of
\* its thread is exactly what that request has read and appended.
C3_MutualExclusion ==
  \A r \in Requests :
    pc[r] \in Active =>
      /\ memory[ThreadOf(r)] = msgs[r]
      /\ \A o \in Requests \ {r} :
           ThreadOf(o) = ThreadOf(r) => pc[o] \notin Active

C3_Witness ==
  \E r, o \in Requests :
    /\ r # o /\ ThreadOf(r) = ThreadOf(o)
    /\ pc[r] = "agent" /\ steps[r] = 2
    /\ pc[o] = "pending"

\* the answer as the claim words it: the latest assistant message with content
\* and without tool calls, else the latest assistant message with content,
\* else the fixed notice
ClaimedAnswer(ms) ==
  LET final == {i \in 1..Len(ms) :
                  ms[i].type = "ai" /\ ms[i].content # "" /\ ms[i].tool_calls = <<>>}
      any == {i \in 1..Len(ms) : ms[i].type = "ai" /\ ms[i].content # ""}
  IN IF final # {} THEN ms[Max(final)].content
     ELSE IF any # {} THEN ms[Max(any)].content
     ELSE fallback_notice

\* C4: the answer of a request that ends without an error is the content of
\* the latest assistant message with content and no tool calls of the whole
\* transcript, else of the latest assistant message with content, else the
\* fixed notice; it is never empty and the request succeeds.
C4_AnswerExtraction ==
  \A r \in Requests :
    pc[r] = "done" =>
      /\ response[r].status = 200
      /\ response[r].answer = ClaimedAnswer(msgs[r])
      /\ response[r].answer # ""

\* a request whose only assistant message with content carries tool calls:
\* the second scan gives the answer
C4_Witness ==
  \E r \in Requests :
    /\ pc[r] = "done"
    /\ response[r].answer = "t1"
    /\ msgs[r][Len(msgs[r])].content = ""
    /\ \E i \in 1..Len(msgs[r]) :
         msgs[r][i].type = "ai" /\ msgs[r][i].content = "t1" /\ msgs[r][i].tool_calls # <<>>

\* the history as the claim words it: the transcript without its system
\* messages, its tool results and its assistant messages with tool calls,
\* every message left mapped to an entry of its role
ClaimedHistory(ms) ==
  LET kept == SelectSeq(ms, LAMBDA m :
                 /\ m.type \notin {"system", "tool"}
                 /\ ~(m.type = "ai" /\ m.tool_calls # <<>>))
  IN [i \in 1..Len(kept) |->
        HistoryEntry(IF kept[i].type = "human" THEN "user" ELSE "assistant", kept[i])]

\* C5: the chat history returned by run_agent is exactly the transcript with
\* all system messages, all tool results and all assistant messages with tool
\* calls removed, every other message mapped to a user or an assistant entry
\* in transcript order, none dropped and none added.
C5_HistoryFilter ==
  \A r \in Requests :
    pc[r] = "done" => response[r].chat_history = ClaimedHistory(msgs[r])

\* C6: when the first call of the model of a request fails, the transcript
\* stored for the thread after the failed request equals the transcript
\* stored before it.
C6_FirstCallFailureLeavesTranscript ==
  \A r \in Requests :
    (pc[r] = "failed" /\ err[r] = "decision" /\ steps[r] = 0) =>
      stored[r] = priorLen[r]

\* C7: a request whose call of the model fails, the first call or a later one,
\* ends failed with a request-level error and no answer string, and only such
\* a request or one stopped by the recursion limit is reported failed; the
\* failed call is not made again.
C7_DecisionErrorIsFatal ==
  \A r \in Requests :
    /\ err[r] = "decision" =>
         /\ pc[r] = "failed"
         /\ response[r].status = 500
         /\ response[r].answer = NoAnswer
         /\ response[r].chat_history = <<>>
    /\ response[r].status = 200 => err[r] = "none"

C7_Witness ==
  \E r \in Requests :
    /\ err[r] = "decision"
    /\ steps[r] = 2
    /\ msgs[r][Len(msgs[r])].type = "tool"
    /\ response[r].status = 500

\* a reply without content and without tool calls
EmptyDecision(m) == m.type = "ai" /\ m.content = "" /\ m.tool_calls = <<>>

\* C8: a request whose model reply has neither content nor tool calls is not
\* ended as a success: it is rejected and reported as a failure.
C8_EmptyDecisionIsError ==
  \A r \in Requests :
    (Started(r) /\ EmptyDecision(msgs[r][Len(msgs[r])])) =>
      /\ pc[r] = "failed"
      /\ response[r].status = 500

\* C9: every request that waits for the event loop is eventually answered,
\* done or failed, whatever the model replies (from some moment on no request
\* is waiting or running, and a request that has left these positions is done
\* or failed for good); a request never runs more
\* supersteps than the recursion limit, and a request stopped by the limit
\* ends failed with a request-level error.
C9_Termination ==
  /\ [](\A r \in Requests :
          /\ steps[r] <= RecursionLimit
          /\ err[r] = "recursion" =>
               (pc[r] = "failed" /\ response[r].status = 500 /\ steps[r] = RecursionLimit))
  /\ <>[](\A r \in Requests : pc[r] \notin {"pending"} \cup Active)

\* a model that asked for tools on every call, stopped by the limit
C9_Witness ==
  \E r \in Requests :
    /\ err[r] = "recursion"
    /\ pc[r] = "failed"
    /\ \A i \in 1..Len(Turn(r)) :
         Turn(r)[i].type = "ai" => Turn(r)[i].tool_calls # <<>>

\* the i-th message of the turn of request r is a reply of the model that
\* asks for tools, and the tools step has run for it (the reply that hits the
\* recursion limit is never dispatched)
Dispatched(r, i) ==
  /\ Turn(r)[i].type = "ai"
  /\ Turn(r)[i].tool_calls # <<>>
  /\ ~(i = Len(Turn(r)) /\ (pc[r] = "tools" \/ err[r] = "recursion"))

\* C10: a failing tool does not fail the request: its failure is the error
\* field of a tool result appended to the transcript, one result per call, no
\* request fails because of a tool, and after the tool results the request
\* goes on to the next call of the model (waiting for it, or past it).
C10_ToolErrorRecovered ==
  \A r \in Requests :
    /\ err[r] # "tool"
    /\ \A i \in 1..Len(Turn(r)) :
         Dispatched(r, i) =>
           LET calls == Turn(r)[i].tool_calls
           IN /\ i + Len(calls) <= Len(Turn(r))
              /\ \A k \in 1..Len(calls) :
                   /\ Turn(r)[i + k].type = "tool"
                   /\ Turn(r)[i + k].tool_call_id = calls[k].id
                   /\ Turn(r)[i + k].content.tool \in ToolNames
              /\ IF i + Len(calls) = Len(Turn(r))
                 THEN pc[r] = "agent" \/ err[r] = "decision"
                 ELSE Turn(r)[i + Len(calls) + 1].type = "ai"

\* a search that failed, its error in the transcript, and the reply of the
\* next call of the model after it
C10_Witness ==
  \E r \in Requests :
    \E i \in 1..Len(msgs[r]) :
      /\ msgs[r][i].type = "tool"
      /\ msgs[r][i].content.error
      /\ i < Len(msgs[r])
      /\ msgs[r][i + 1].type = "ai"
      /\ pc[r] = "done"

\* the number of (invocation, tool result) pairs of a first turn of n messages
Pairs(n) == (n - 3) \div 2

EndedInFinal(r) ==
  /\ pc[r] = "done"
  /\ msgs[r][Len(msgs[r])].content # ""
  /\ msgs[r][Len(msgs[r])].tool_calls = <<>>

\* the two entries a successful turn of request r contributes to the history
TurnEntries(r) ==
  << [role |-> "user", content |-> req[r].question, timestamp |-> "None"],
     [role |-> "assistant", content |-> response[r].answer, timestamp |-> "None"] >>

RECURSIVE ReadBack(_)
ReadBack(h) ==
  IF h = <<>> THEN <<>>
  ELSE <<IF Head(h).role = "user" THEN HumanMessage(Head(h).content)
         ELSE AIMessage(Head(h).content, <<>>)>> \o ReadBack(Tail(h))

\* the transcripts the program holds: the threads' and the requests' copies
Transcripts == {memory[t] : t \in Threads} \cup {msgs[r] : r \in Requests}

\* C13: filtering is idempotent: for every transcript, the history filter
\* applied to the filtered history read back as messages returns that
\* filtered history unchanged.
C13_FilterIdempotent ==
  \A ms \in Transcripts :
    FormatHistory(ReadBack(FormatHistory(ms))) = FormatHistory(ms)

\* a transcript with a system message, an invocation and a tool result, whose
\* filtered history is not empty and is shorter than the transcript
C13_Witness ==
  \E ms \in Transcripts :
    /\ \E i \in 1..Len(ms) : ms[i].type = "tool"
    /\ \E i \in 1..Len(ms) : ms[i].type = "system"
    /\ Len(FormatHistory(ms)) >= 2
    /\ ReadBack(FormatHistory(ms)) # ms
    /\ FormatHistory(ReadBack(FormatHistory(ms))) = FormatHistory(ms)

\* C14: a turn is atomic: a request that failed part-way through its turn
\* (for example on the model call made after a tool dispatch) left the
\* transcript of its thread as it found it, and a request that succeeded left
\* all of its turn, so that nothing later reads part of a turn.
C14_TurnAtomicity ==
  \A r \in Requests :
    /\ pc[r] = "failed" => stored[r] = priorLen[r]
    /\ pc[r] = "done" => stored[r] = Len(msgs[r])

\* the thread a request names: its thread_id, "default" when it has none
ClaimedThread(r) == IF req[r].thread_id = NoThread THEN "default" ELSE req[r].thread_id

\* the transcript of request r's thread as it was when r was answered
OwnTranscript(r) == SubSeq(memory[ClaimedThread(r)], 1, stored[r])

\* C15: threads are independent: a step that changes the transcript of a
\* thread is a step of a submit-question request on that thread, so an
\* operation on thread A leaves every other thread's transcript unchanged
\* whatever the order of the requests, and a fetch changes none; what a
\* request returns is computed from the transcript of its own thread alone:
\* the one it found there followed by its own turn.
C15_ThreadIndependence ==
  /\ [][ \A t \in Threads :
           memory'[t] # memory[t] =>
             \E r \in Requests :
               /\ pc'[r] # pc[r]
               /\ pc'[r] \in Active \cup Terminated
               /\ ClaimedThread(r) = t
               /\ \A u \in Threads \ {t} : memory'[u] = memory[u] ]_vars
  /\ [](\A r \in Requests :
          /\ Started(r) =>
               /\ IsPrefix(msgs[r], memory[ClaimedThread(r)])
               /\ priorLen[r] <= Len(msgs[r])
          /\ pc[r] = "done" =>
               /\ OwnTranscript(r) = msgs[r]
               /\ response[r] = AnswerResponse(ExtractAnswer(OwnTranscript(r)),
                                               FormatHistory(OwnTranscript(r)))
          /\ pc[r] = "fetched" =>
               response[r].messages = FormatHistory(OwnTranscript(r)))

\* a request was answered on one thread, then another ran on a second thread,
\* which it found empty, and the first thread's transcript is as it was
C15_Witness ==
  \E r, o \in Requests :
    /\ r < o
    /\ pc[r] = "done"
    /\ pc[o] \in Terminated
    /\ ClaimedThread(r) # ClaimedThread(o)
    /\ priorLen[o] = 0
    /\ Len(msgs[o]) >= 3
    /\ memory[ClaimedThread(r)] = msgs[r]
    /\ memory[ClaimedThread(o)] = msgs[o]

\* C16: a failed read of the transcript store fails the operation and reaches
\* the caller: the request ends failed with an error response, nothing is
\* added to the thread, the thread is not primed again and no history,
\* empty or not, is returned for it.
C16_StateErrorSurfaces ==
  \A r \in Requests :
    err[r] = "state" =>
      /\ pc[r] = "failed"
      /\ response[r].status = 500
      /\ Len(memory[ThreadOf(r)]) >= stored[r]
      /\ msgs[r] = SubSeq(memory[ThreadOf(r)], 1, priorLen[r])

\* C17: a fetch of a thread's history returns the thread_id it was asked for,
\* the transcript the thread had at that moment filtered as the history
\* filter is worded (system messages, tool results and assistant messages
\* with tool calls removed, the rest in order), and the number of entries
\* returned; for a thread without a transcript it returns no entry and the
\* count 0.
C17_FetchHistoryContract ==
  \A r \in Requests :
    pc[r] = "fetched" =>
      /\ response[r].status = 200
      /\ response[r].thread_id = req[r].thread_id
      /\ response[r].messages = ClaimedHistory(OwnTranscript(r))
      /\ response[r].total_messages = Len(response[r].messages)
      /\ stored[r] = 0 => response[r].messages = <<>> /\ response[r].total_messages = 0

\* C18: a submit-question request with an empty question is rejected before
\* orchestration: it is answered with a validation error, the model is never
\* called for it, no tool runs for it, and the step that rejects it changes
\* no transcript, so no transcript ever holds an empty user message; a request
\* without thread_id that passes validation runs on the thread "default".
C18_ValidationError ==
  /\ [](\A r \in Requests :
          /\ (pc[r] # "new" /\ req[r].question = "") =>
               /\ pc[r] = "rejected"
               /\ response[r] = ValidationResponse
               /\ steps[r] = 0
               /\ msgs[r] = <<>>
               /\ added[r] = <<>>
          /\ pc[r] = "rejected" => req[r].question = ""
          /\ (Started(r) /\ req[r].thread_id = NoThread) =>
               /\ msgs[r] # <<>>
               /\ IsPrefix(msgs[r], memory["default"]))
  /\ [](\A t \in Threads : \A i \in 1..Len(memory[t]) :
          memory[t][i].type = "human" => memory[t][i].content # "")
  /\ [][ \A r \in Requests :
           (pc[r] # "rejected" /\ pc'[r] = "rejected") =>
             /\ memory' = memory
             /\ replies' = replies
             /\ msgs' = msgs ]_vars

\* one request was rejected for its empty question and the thread it named
\* has no transcript; another without thread_id was answered on "default"
C18_Witness ==
  \E r, o \in Requests :
    /\ pc[r] = "rejected"
    /\ response[r].status = 422
    /\ req[r].thread_id = "t1"
    /\ memory["t1"] = <<>>
    /\ pc[o] = "done"
    /\ req[o].thread_id = NoThread
    /\ memory["default"] = msgs[o]

\* the positions of the assistant messages with tool calls in a transcript
Invocations(ms) == {i \in 1..Len(ms) : ms[i].type = "ai" /\ ms[i].tool_calls # <<>>}

\* the invocation at position i of ms is followed by one tool result per call,
\* in the order of the calls, each with the id and the tool of its call, and
\* by no further tool result
Answered(ms, i) ==
  LET calls == ms[i].tool_calls
  IN /\ i + Len(calls) <= Len(ms)
     /\ \A k \in 1..Len(calls) :
          /\ ms[i + k].type = "tool"
          /\ ms[i + k].tool_call_id = calls[k].id
          /\ ms[i + k].content.tool = calls[k].name
     /\ i + Len(calls) < Len(ms) => ms[i + Len(calls) + 1].type # "tool"

\* C19: a reply of the model with n >= 1 tool calls is appended, then exactly
\* n tool results, one per call, in the order of the calls, each with the id
\* of its call, and only then is the model called again; the model is never
\* called on a transcript whose latest invocation lacks a tool result.
C19_ToolDispatch ==
  \A r \in Requests :
    /\ \A i \in Invocations(Turn(r)) :
         (i < Len(Turn(r)) \/ pc[r] = "agent") => Answered(Turn(r), i)
    /\ pc[r] = "agent" =>
         /\ msgs[r][Len(msgs[r])].type \in {"human", "tool"}
         /\ Invocations(msgs[r]) # {} =>
              Answered(msgs[r], Max(Invocations(msgs[r])))

\* C20: create_agent builds the graph and its store at most once: every call
\* returns the one instance, whichever request calls it first, so the
\* transcripts the requests of one thread worked on form a chain, each later
\* request having found every message an earlier request had appended, and
\* every message a request appended is still in its thread's transcript.
C20_SingleInstance ==
  /\ agent_instance <= 1
  /\ (\E r \in Requests : Started(r) \/ pc[r] = "fetched") => agent_instance = 1
  /\ \A r \in Requests :
       Started(r) => IsPrefix(msgs[r], memory[ClaimedThread(r)])
  /\ \A r, o \in Requests :
       (r # o /\ Started(r) /\ Started(o) /\ ClaimedThread(r) = ClaimedThread(o)) =>
         \/ IsPrefix(msgs[r], SubSeq(msgs[o], 1, priorLen[o])) /\ pc[r] \in Terminated
         \/ IsPrefix(msgs[o], SubSeq(msgs[r], 1, priorLen[r])) /\ pc[o] \in Terminated
  /\ \A r \in Requests :
       pc[r] = "fetched" => stored[r] <= Len(memory[req[r].thread_id])

\* a second request called create_agent after a first one had been answered
\* and found the first one's turn in the transcript of their thread
C20_Witness ==
  \E r, o \in Requests :
    /\ r # o
    /\ pc[r] = "done"
    /\ Started(o)
    /\ ClaimedThread(r) = ClaimedThread(o)
    /\ priorLen[o] = Len(msgs[r])
    /\ priorLen[o] >= 3
    /\ agent_instance = 1

\* C21: the answer of a successful request is fresh: it is the content of an
\* assistant message of the request's own turn (a message after the
\* transcript the request found) or the fixed notice, never the content of
\* an assistant message that only an earlier turn of the thread holds, also
\* when the last reply of the turn is empty.
C21_AnswerFreshness ==
  \A r \in Requests :
    pc[r] = "done" =>
      \/ response[r].answer = fallback_notice
      \/ \E i \in 1..Len(Turn(r)) :
           /\ Turn(r)[i].type = "ai"
           /\ Turn(r)[i].content = response[r].answer

\* C22: whatever requests ran on a thread, answered or failed, one after the
\* other or queued together, the thread's transcript holds at most one system
\* message, and a transcript that is not empty begins with it.
C22_SingleSystemMessage ==
  \A t \in Threads :
    /\ \A i \in 2..Len(memory[t]) : memory[t][i].type # "system"
    /\ memory[t] # <<>> => memory[t][1].type = "system"

====
